---- MODULE Spec2Model ----
(***************************************************************************)
(* Model of the booking server of src/index.js: the route handlers         *)
(* GET /available-slots and POST /book over the two stores the code        *)
(* selects between (the JSON file all-bookings.json and Vercel KV), and of  *)
(* processBooking of src/google-apps-script.js over the spreadsheet and    *)
(* the calendar.                                                           *)
(*                                                                         *)
(* JavaScript strings are sequences of one-character strings, so that      *)
(* trim, toLowerCase, the e-mail pattern, parseInt and the relational      *)
(* comparison of date strings are computed the way the code computes them. *)
(* A JavaScript value is a record [t |-> typeof tag, s |-> ToString].      *)
(***************************************************************************)
EXTENDS Integers, Sequences, FiniteSets, TLC

(***************************************************************************)
(* Strings                                                                 *)
(***************************************************************************)

\* The characters the model uses, in the order of their UTF-16 code units.
CharOrder ==
  << " ", "-", ".", "0", "1", "2", "3", "4", "5", "6", "7", "8", "9", ":",
     "@", "A", "B", "N", "T", "a", "b", "c", "d", "e", "f", "g", "h", "i",
     "l", "n", "o", "p", "r", "s", "t", "u", "x", "y" >>

CodeUnit(c) == CHOOSE i \in 1..Len(CharOrder) : CharOrder[i] = c

DigitChars == << "0", "1", "2", "3", "4", "5", "6", "7", "8", "9" >>

IsDigit(c) == \E i \in 1..10 : DigitChars[i] = c

DigitValue(c) == (CHOOSE i \in 1..10 : DigitChars[i] = c) - 1

IsWhitespace(c) == c = " "

\* String.prototype.toLowerCase on one character.
LowerChar(c) ==
  CASE c = "A" -> "a"
    [] c = "B" -> "b"
    [] c = "N" -> "n"
    [] c = "T" -> "t"
    [] OTHER -> c

ToLowerCase(s) == [i \in 1..Len(s) |-> LowerChar(s[i])]

RECURSIVE TrimStart(_)
TrimStart(s) ==
  IF s # << >> /\ IsWhitespace(Head(s)) THEN TrimStart(Tail(s)) ELSE s

RECURSIVE TrimEnd(_)
TrimEnd(s) ==
  IF s # << >> /\ IsWhitespace(s[Len(s)])
    THEN TrimEnd(SubSeq(s, 1, Len(s) - 1))
    ELSE s

\* String.prototype.trim
Trim(s) == TrimEnd(TrimStart(s))

\* a < b on strings: the comparison of code units, a proper prefix first.
RECURSIVE StrLess(_, _)
StrLess(a, b) ==
  IF b = << >> THEN FALSE
  ELSE IF a = << >> THEN TRUE
  ELSE IF Head(a) = Head(b) THEN StrLess(Tail(a), Tail(b))
  ELSE CodeUnit(Head(a)) < CodeUnit(Head(b))

StrLeq(a, b) == a = b \/ StrLess(a, b)

\* Number.prototype.toString of a non-negative integer.
RECURSIVE ToDecimal(_)
ToDecimal(n) ==
  IF n < 10 THEN << DigitChars[n + 1] >>
  ELSE ToDecimal(n \div 10) \o << DigitChars[(n % 10) + 1] >>

\* The value of a string of digits.
RECURSIVE DigitsValue(_)
DigitsValue(s) ==
  IF s = << >> THEN 0
  ELSE 10 * DigitsValue(SubSeq(s, 1, Len(s) - 1)) + DigitValue(s[Len(s)])

TwoDigits(n) == << DigitChars[(n \div 10) + 1], DigitChars[(n % 10) + 1] >>

(***************************************************************************)
(* JavaScript values of a JSON body or of a query string                   *)
(***************************************************************************)

JStr(s) == [t |-> "string", s |-> s]
JNum(n) == [t |-> "number", s |-> ToDecimal(n)]
JTrue == [t |-> "boolean", s |-> << "t", "r", "u", "e" >>]
JFalse == [t |-> "boolean", s |-> << "f", "a", "l", "s", "e" >>]
Undefined == [t |-> "undefined", s |-> << "u", "n", "d", "e", "f", "i", "n", "e", "d" >>]
Null == [t |-> "object", s |-> << "n", "u", "l", "l" >>]

\* !v
Falsy(v) ==
  \/ v = Undefined
  \/ v = Null
  \/ v = JFalse
  \/ v.t = "string" /\ v.s = << >>
  \/ v.t = "number" /\ v.s = << "0" >>

\* parseInt(v, 10): the longest prefix of digits of the trimmed ToString(v),
\* NaN when there is none.
RECURSIVE DigitPrefix(_)
DigitPrefix(s) ==
  IF s # << >> /\ IsDigit(Head(s))
    THEN << Head(s) >> \o DigitPrefix(Tail(s))
    ELSE << >>

ParseInt(v) ==
  LET str == TrimStart(v.s)
      neg == str # << >> /\ Head(str) = "-"
      rest == IF neg THEN Tail(str) ELSE str
      digits == DigitPrefix(rest)
  IN IF digits = << >>
       THEN [nan |-> TRUE, n |-> 0]
       ELSE [nan |-> FALSE,
             n |-> IF neg THEN 0 - DigitsValue(digits) ELSE DigitsValue(digits)]

(***************************************************************************)
(* Configuration                                                           *)
(***************************************************************************)

Slot(h) == TwoDigits(h) \o << ":", "0", "0" >>

ALL_TIME_SLOTS == [i \in 1..12 |-> Slot(7 + i)]

ALLOWED_EDUCATION_LEVELS ==
  { << "h", "i", "g", "h", "e", "r" >>,
    << "s", "t", "u", "d", "i", "e", "s" >>,
    << "o", "t", "h", "e", "r" >> }

IsoDate(y, m, d) == ToDecimal(y) \o << "-" >> \o TwoDigits(m) \o << "-" >> \o TwoDigits(d)

MIN_BOOKING_DATE == IsoDate(2025, 11, 24)
MAX_BOOKING_DATE == IsoDate(2025, 12, 5)

getDateBounds == [minDate |-> MIN_BOOKING_DATE, maxDate |-> MAX_BOOKING_DATE]

(***************************************************************************)
(* Date and e-mail validation                                              *)
(***************************************************************************)

AllDigits(s) == \A i \in 1..Len(s) : IsDigit(s[i])

\* new Date(`${s}T00:00:00`).getTime() is not NaN, for s made of digits and
\* hyphens. V8 reads the ES5 form YYYY[-MM[-DD]] with the month in 1..12 and
\* the day in 1..31 whatever the month (a day past the end of the month rolls
\* over into the next one); any other such s leaves the legacy parser with
\* the word T after a number, which it rejects.
DateParses(s) ==
  LET n == Len(s)
      year == n >= 4 /\ AllDigits(SubSeq(s, 1, 4))
      month == /\ n >= 7
               /\ s[5] = "-"
               /\ AllDigits(SubSeq(s, 6, 7))
               /\ DigitsValue(SubSeq(s, 6, 7)) \in 1..12
      day == /\ n = 10
             /\ s[8] = "-"
             /\ AllDigits(SubSeq(s, 9, 10))
             /\ DigitsValue(SubSeq(s, 9, 10)) \in 1..31
  IN \/ n = 4 /\ year
     \/ n = 7 /\ year /\ month
     \/ n = 10 /\ year /\ month /\ day

\* isValidBookingDate without the comparison with maxDate.
isValidBookingDateNoUpperBound(v) ==
  IF Falsy(v) \/ v.t # "string" THEN FALSE
  ELSE IF ~DateParses(v.s) THEN FALSE
  ELSE StrLeq(getDateBounds.minDate, v.s)

isValidBookingDate(v) ==
  IF Falsy(v) \/ v.t # "string" THEN FALSE
  ELSE IF ~DateParses(v.s) THEN FALSE
  ELSE LET b == getDateBounds
       IN StrLeq(b.minDate, v.s) /\ StrLeq(v.s, b.maxDate)

normalizeEmail(v) == IF v.t = "string" THEN ToLowerCase(Trim(v.s)) ELSE << >>

\* /^[^\s@]+@[^\s@]+\.[^\s@]+$/.test(s)
EmailRegexTest(s) ==
  \E i \in 1..Len(s) :
    /\ s[i] = "@"
    /\ i >= 2
    /\ \A k \in 1..Len(s) : k # i => ~IsWhitespace(s[k]) /\ s[k] # "@"
    /\ \E j \in (i + 2)..(Len(s) - 1) : s[j] = "."

isValidEmail(v) ==
  LET trimmed == normalizeEmail(v)
  IN IF trimmed = << >> THEN FALSE ELSE EmailRegexTest(trimmed)

(***************************************************************************)
(* POST /book: validation                                                  *)
(***************************************************************************)

NoError == "none"
ERR_REQUIRED == "Wszystkie pola sa wymagane"
ERR_DATE == "Nieprawidlowa data rezerwacji"
ERR_SLOT == "Nieprawidlowy termin"
ERR_EMAIL == "Podaj prawidlowy adres e-mail"
ERR_AGE == "Wiek musi wynosic co najmniej 18 lat"
ERR_EDUCATION == "Podano nieprawidlowa wartosc dla wyksztalcenia"
ERR_NATIVE == "Rezerwacja dostepna wylacznie dla osob, dla ktorych polski jest jezykiem ojczystym."
ERR_SLOT_BOOKED == "Ten termin jest juz zarezerwowany na wybrana date"
ERR_SAVE == "Nie udalo sie zapisac rezerwacji"
ERR_SLOTS == "Nie udalo sie pobrac dostepnych terminow"
ERR_NO_BOOKINGS == "Brak rezerwacji do eksportu"
ERR_NO_EVENTS == "Brak poprawnych danych do wygenerowania kalendarza"
ERR_CALENDAR == "Nie udalo sie wygenerowac kalendarza"

\* ALL_TIME_SLOTS.includes(v)
IsTimeSlot(v) == v.t = "string" /\ \E i \in 1..Len(ALL_TIME_SLOTS) : ALL_TIME_SLOTS[i] = v.s

\* const trimmedEmail = typeof email === 'string' ? email.trim() : ''
TrimmedEmail(body) == IF body.email.t = "string" THEN Trim(body.email.s) ELSE << >>

AgeOutOfRange(body) ==
  LET parsedAge == ParseInt(body.age)
  IN parsedAge.nan \/ parsedAge.n < 18 \/ parsedAge.n > 120

RequiredMissing(body) ==
  \/ Falsy(body.date)
  \/ Falsy(body.timeSlot)
  \/ Falsy(body.name)
  \/ Falsy(body.email)
  \/ Falsy(body.gender)
  \/ Falsy(body.education)
  \/ body.age = Undefined
  \/ body.age = Null

\* ValidationError with the timeSlot check before the date check.
ValidationErrorSwapped(body) ==
  IF RequiredMissing(body) THEN ERR_REQUIRED
  ELSE IF ~IsTimeSlot(body.timeSlot) THEN ERR_SLOT
  ELSE IF ~isValidBookingDate(body.date) THEN ERR_DATE
  ELSE IF ~isValidEmail(JStr(TrimmedEmail(body))) THEN ERR_EMAIL
  ELSE IF AgeOutOfRange(body) THEN ERR_AGE
  ELSE IF ~(body.education.t = "string" /\ body.education.s \in ALLOWED_EDUCATION_LEVELS)
    THEN ERR_EDUCATION
  ELSE IF Falsy(body.nativePolishSpeaker) THEN ERR_NATIVE
  ELSE NoError

\* The checks of the handler, in the order of its if statements: the error of
\* the first one that fails, NoError when all pass.
ValidationError(body) ==
  IF RequiredMissing(body) THEN ERR_REQUIRED
  ELSE IF ~isValidBookingDate(body.date) THEN ERR_DATE
  ELSE IF ~IsTimeSlot(body.timeSlot) THEN ERR_SLOT
  ELSE IF ~isValidEmail(JStr(TrimmedEmail(body))) THEN ERR_EMAIL
  ELSE IF AgeOutOfRange(body) THEN ERR_AGE
  ELSE IF ~(body.education.t = "string" /\ body.education.s \in ALLOWED_EDUCATION_LEVELS)
    THEN ERR_EDUCATION
  ELSE IF Falsy(body.nativePolishSpeaker) THEN ERR_NATIVE
  ELSE NoError

(***************************************************************************)
(* Booking records                                                         *)
(***************************************************************************)

\* The date string of a day counted from 1 November 2025 (31 is 1 December).
DayString(n) == IF n <= 30 THEN IsoDate(2025, 11, n) ELSE IsoDate(2025, 12, n - 30)

\* toDateOnlyString(new Date(timestamp)): local midnight of the instant's
\* local day, rendered in UTC. utcOffset is the server's offset in hours.
toDateOnlyString(ts, utcOffset) ==
  LET localHour == ts.hour + utcOffset
      localDay == IF localHour < 0 THEN ts.day - 1
                  ELSE IF localHour >= 24 THEN ts.day + 1
                  ELSE ts.day
  IN DayString(IF utcOffset > 0 THEN localDay - 1 ELSE localDay)

\* booking.date || (booking.timestamp ? toDateOnlyString(...) : null); a record
\* without the field has the empty sequence, and so has the null result.
BookingDate(b, utcOffset) ==
  IF b.date # << >> THEN b.date
  ELSE IF b.timestamp # << >> THEN toDateOnlyString(b.timestamp[1], utcOffset)
  ELSE << >>

\* newBooking with the normalized e-mail in place of trimmedEmail.
NewBookingNormalizedEmail(body, clock) ==
  [ id |-> ToDecimal(clock),
    date |-> body.date.s,
    timeSlot |-> body.timeSlot.s,
    name |-> body.name,
    email |-> normalizeEmail(body.email),
    gender |-> body.gender,
    age |-> ParseInt(body.age).n,
    education |-> body.education.s,
    nativePolishSpeaker |-> ~Falsy(body.nativePolishSpeaker),
    timestamp |-> << [day |-> 20, hour |-> 12, ms |-> clock] >> ]

\* The object literal newBooking of the handler. clock is the reading of
\* Date.now(), in milliseconds of the day the model runs in (20 November).
NewBooking(body, clock) ==
  [ id |-> ToDecimal(clock),
    date |-> body.date.s,
    timeSlot |-> body.timeSlot.s,
    name |-> body.name,
    email |-> TrimmedEmail(body),
    gender |-> body.gender,
    age |-> ParseInt(body.age).n,
    education |-> body.education.s,
    nativePolishSpeaker |-> ~Falsy(body.nativePolishSpeaker),
    timestamp |-> << [day |-> 20, hour |-> 12, ms |-> clock] >> ]

\* bookings.filter(existing => normalizeEmail(existing.email) !== normalizedIncomingEmail)
BookingsWithoutEmail(bookings, trimmedEmail) ==
  SelectSeq(bookings,
            LAMBDA existing :
              normalizeEmail(JStr(existing.email)) # normalizeEmail(JStr(trimmedEmail)))

\* replacedBooking: the first loaded record with the incoming e-mail, as a
\* sequence of at most one record.
ReplacedBooking(bookings, trimmedEmail) ==
  LET same == SelectSeq(bookings,
                        LAMBDA existing :
                          normalizeEmail(JStr(existing.email)) = normalizeEmail(JStr(trimmedEmail)))
  IN IF same = << >> THEN << >> ELSE << same[1] >>

\* slotBooked without the comparison of the dates.
SlotBookedAnyDate(others, date, timeSlot, utcOffset) ==
  \E i \in 1..Len(others) : others[i].timeSlot = timeSlot

\* bookingsWithoutEmail.some(booking => bookingDate === date && booking.timeSlot === timeSlot)
SlotBooked(others, date, timeSlot, utcOffset) ==
  \E i \in 1..Len(others) :
    BookingDate(others[i], utcOffset) = date /\ others[i].timeSlot = timeSlot

(***************************************************************************)
(* GET /available-slots: the response computed from the loaded bookings    *)
(***************************************************************************)

\* typeof req.query.date === 'string' ? req.query.date : ''
RequestedDate(q) == IF q.t = "string" THEN q.s ELSE << >>

SlotsDate(q) ==
  IF isValidBookingDate(JStr(RequestedDate(q))) THEN RequestedDate(q) ELSE getDateBounds.minDate

BookedSlots(bookings, date, utcOffset) ==
  LET onDate == SelectSeq(bookings, LAMBDA b : BookingDate(b, utcOffset) = date)
  IN [i \in 1..Len(onDate) |-> onDate[i].timeSlot]

\* availableSlots without the filter on bookedSlots.
AvailableSlotsUnfiltered(bookedSlots) == ALL_TIME_SLOTS

\* ALL_TIME_SLOTS.filter(slot => !bookedSlots.includes(slot))
AvailableSlots(bookedSlots) ==
  SelectSeq(ALL_TIME_SLOTS,
            LAMBDA slot : ~\E i \in 1..Len(bookedSlots) : bookedSlots[i] = slot)

SlotsResponse(q, bookings, utcOffset) ==
  LET date == SlotsDate(q)
      bookedSlots == BookedSlots(bookings, date, utcOffset)
  IN [ date |-> date,
       minDate |-> getDateBounds.minDate,
       maxDate |-> getDateBounds.maxDate,
       availableSlots |-> AvailableSlots(bookedSlots),
       bookedSlots |-> bookedSlots ]

(***************************************************************************)
(* State                                                                   *)
(***************************************************************************)

VARIABLES
  kvEnabled,      \* kv is not null: the Vercel KV store is used, not the file
  resendEnabled,  \* resendClient is not null
  utcOffset,      \* the server's time zone, in hours east of UTC
  file,           \* all-bookings.json: [kind, recs]; kind is "absent", "array"
                  \* (recs are its elements), "empty" (no text but
                  \* whitespace), "invalid" (text JSON.parse rejects),
                  \* "object" or "null" (JSON that is no array)
  kvData,         \* Vercel KV: the record under each key booking:<id>, by id
  now,            \* the last reading of Date.now(), in ms of the current day
  started,        \* the number of requests received so far
  req,            \* the request each handler instance is serving
  prev,           \* the request the instance served before this one
  outbox,         \* the calls of sendBookingNotification so far
  faults,         \* the store calls that failed: << request, call >>
  sheet,          \* Sheet1 of the Apps Script variant: its rows, row 1 first
  calendar,       \* the events of the calendar CALENDAR_ID
  call,           \* the execution of processBooking in progress, or the last
  calls           \* the number of processBooking calls so far

\* The state of the Apps Script variant.
gasVars == << sheet, calendar, call, calls >>

vars ==
  << kvEnabled, resendEnabled, utcOffset, file, kvData, now, started, req, prev, outbox,
     faults, sheet, calendar, call, calls >>

\* The number of handler instances that may be in flight together.
NumHandlers == 2

Handlers == 1..NumHandlers

EmptyBody ==
  [ date |-> Undefined, timeSlot |-> Undefined, name |-> Undefined,
    email |-> Undefined, gender |-> Undefined, age |-> Undefined,
    education |-> Undefined, nativePolishSpeaker |-> Undefined ]

IdleRequest ==
  [ n |-> 0, kind |-> "none", pc |-> "idle", body |-> EmptyBody, query |-> Undefined,
    keys |-> << >>, bookings |-> << >>, others |-> << >>, replaced |-> << >>,
    newBooking |-> << >>, status |-> 0, error |-> NoError, slots |-> << >>,
    ics |-> "none", events |-> << >>, createEvents |-> "none",
    pre |-> [file |-> [kind |-> "absent", recs |-> << >>], kv |-> << >>] ]

Range(f) == { f[x] : x \in DOMAIN f }

\* The records the store holds.
StoreRecords == IF kvEnabled THEN Range(kvData) ELSE Range(file.recs)

\* The number of records the store holds (the file may hold a record twice).
StoreCount == IF kvEnabled THEN Cardinality(DOMAIN kvData) ELSE Len(file.recs)

EmptyFile == [kind |-> "array", recs |-> << >>]

\* The header of Sheet1: the titles of the columns A, B, C, E and J.
HeaderRow ==
  [ id |-> << "I", "D" >>, date |-> << "D", "a", "t", "a" >>,
    timeSlot |-> << "G", "o", "d", "z", "i", "n", "a" >>,
    email |-> << "E", "m", "a", "i", "l" >>, eventId |-> 0 ]

EmptyData == [id |-> Undefined, date |-> Undefined, timeSlot |-> Undefined, email |-> Undefined]

\* No execution of processBooking yet.
IdleCall ==
  [ pc |-> "idle", n |-> 0, data |-> EmptyData, email |-> << >>,
    existingRow |-> 0, oldEventId |-> 0, targetRow |-> 0, calendarEventId |-> 0,
    bookingId |-> << >>, failed |-> {}, thrown |-> FALSE, success |-> FALSE,
    pre |-> [sheet |-> << >>, calendar |-> {}] ]

\* The spreadsheet with its header row, the calendar empty, no call made.
SheetIdle ==
  /\ sheet = << HeaderRow >>
  /\ calendar = {}
  /\ call = IdleCall
  /\ calls = 0

Init ==
  /\ kvEnabled \in BOOLEAN
  /\ resendEnabled \in BOOLEAN
  /\ utcOffset = 0
  /\ file = [kind |-> "absent", recs |-> << >>]
  /\ kvData = << >>
  /\ now = 0
  /\ started = 0
  /\ req = [p \in Handlers |-> IdleRequest]
  /\ prev = IdleRequest
  /\ outbox = << >>
  /\ faults = {}
  /\ SheetIdle

(***************************************************************************)
(* Steps shared by the handlers                                            *)
(***************************************************************************)

Free(p) == req[p].pc \in {"idle", "done"}

\* Some store call of the request handler p serves has failed.
StoreCallFailed(p) == \E f \in faults : f[1] = req[p].n

\* The catch block of a handler: 500 with the handler's message.
Fail500(p) ==
  req' = [req EXCEPT ![p].pc = "done",
                     ![p].status = 500,
                     ![p].error = IF req[p].kind = "book" THEN ERR_SAVE
                                  ELSE IF req[p].kind = "slots" THEN ERR_SLOTS
                                  ELSE ERR_CALENDAR]

\* let needsSave: some loaded record has no date but a timestamp.
NeedsSave(bookings) ==
  \E i \in 1..Len(bookings) : bookings[i].date = << >> /\ bookings[i].timestamp # << >>

\* bookings.map(...) of loadBookings: the date backfilled from the timestamp.
Normalized(bookings, offset) ==
  [ i \in 1..Len(bookings) |->
      IF bookings[i].date = << >> /\ bookings[i].timestamp # << >>
        THEN [bookings[i] EXCEPT !.date = toDateOnlyString(bookings[i].timestamp[1], offset)]
        ELSE bookings[i] ]

(***************************************************************************)
(* GET /calendar.ics: the events made of the loaded bookings               *)
(***************************************************************************)

\* The string a missing field is compared as: localeCompare(undefined).
UndefinedString == << "u", "n", "d", "e", "f", "i", "n", "e", "d" >>

\* The comparator of sortedBookings throws a TypeError when it calls
\* localeCompare on a field that a lacks: a.timeSlot when the dates are equal
\* (or both missing), a.date otherwise.
CompareThrows(a, b) == IF a.date = b.date THEN a.timeSlot = << >> ELSE a.date = << >>

\* The comparator's result is negative. The strings compared are digits,
\* "-" and ":", or "undefined", which localeCompare orders as by code unit.
CompareLess(a, b) ==
  LET str(x) == IF x = << >> THEN UndefinedString ELSE x
  IN IF a.date = b.date THEN StrLess(str(a.timeSlot), str(b.timeSlot))
     ELSE StrLess(str(a.date), str(b.date))

\* Whether [...bookings].sort(comparator) throws. The order of the
\* comparisons is the engine's: V8 compares the second of two elements with
\* the first, and of more elements passes every one but the first as a, to
\* others the algorithm picks.
SortOutcomes(bookings) ==
  LET n == Len(bookings)
      some == \E i \in 2..n : \E j \in 1..n : j # i /\ CompareThrows(bookings[i], bookings[j])
      every == \E i \in 2..n : \A j \in 1..n : j # i => CompareThrows(bookings[i], bookings[j])
  IN IF n < 2 THEN { FALSE }
     ELSE IF n = 2 THEN { CompareThrows(bookings[2], bookings[1]) }
     ELSE IF every THEN { TRUE }
     ELSE IF some THEN BOOLEAN
     ELSE { FALSE }

\* The bookings in the comparator's order, equal ones in their stored order.
RECURSIVE SortedBookings(_)
SortedBookings(bookings) ==
  IF bookings = << >> THEN << >>
  ELSE LET n == Len(bookings)
           last == bookings[n]
           front == SortedBookings(SubSeq(bookings, 1, n - 1))
           k == Cardinality({ i \in 1..Len(front) : ~CompareLess(last, front[i]) })
       IN SubSeq(front, 1, k) \o << last >> \o SubSeq(front, k + 1, Len(front))

\* s.split(sep)
RECURSIVE Split(_, _)
Split(s, sep) ==
  IF \A i \in 1..Len(s) : s[i] # sep THEN << s >>
  ELSE LET k == CHOOSE i \in 1..Len(s) : s[i] = sep /\ \A j \in 1..(i - 1) : s[j] # sep
       IN << SubSeq(s, 1, k - 1) >> \o Split(SubSeq(s, k + 1, Len(s)), sep)

\* Some of the first count parts of s.split(sep).map(Number) is NaN; a part
\* of digits is a number, the empty part is 0, a missing part is undefined.
SomePartNaN(s, sep, count) ==
  LET parts == Split(s, sep)
  IN \E i \in 1..count : i <= Len(parts) /\ ~AllDigits(parts[i])

\* The bookings the loop of the handler makes events of.
CalendarEvents(bookings) ==
  SelectSeq(SortedBookings(bookings),
            LAMBDA booking :
              /\ booking.date # << >>
              /\ booking.timeSlot # << >>
              /\ ~SomePartNaN(booking.date, "-", 3)
              /\ ~SomePartNaN(booking.timeSlot, ":", 2))

\* GET /calendar.ics once loadBookings has returned bookings: 404 for none,
\* 500 when the sort throws or createEvents reports an error, 404 when no
\* booking made an event.
CalendarAnswer(p, bookings) ==
  LET answer(status, error, events, created) ==
        req' = [req EXCEPT ![p].pc = "done", ![p].bookings = bookings,
                           ![p].status = status, ![p].error = error,
                           ![p].events = events, ![p].createEvents = created]
  IN IF bookings = << >> THEN answer(404, ERR_NO_BOOKINGS, << >>, "none")
     ELSE \E throws \in SortOutcomes(bookings) :
            IF throws THEN answer(500, ERR_CALENDAR, << >>, "none")
            ELSE IF CalendarEvents(bookings) = << >>
              THEN answer(404, ERR_NO_EVENTS, << >>, "none")
            ELSE \E created \in {"value", "error"} :
                   answer(IF created = "error" THEN 500 ELSE 200,
                          IF created = "error" THEN ERR_CALENDAR ELSE NoError,
                          CalendarEvents(bookings), created)

\* What the handler does, without yielding, once loadBookings has returned
\* bookings: GET /available-slots answers; POST /book partitions the
\* bookings by e-mail, checks the slot, builds newBooking from a reading of
\* the clock and goes on to save it.
AfterLoad(p, bookings) ==
  IF req[p].kind = "slots"
    THEN /\ req' = [req EXCEPT ![p].pc = "done",
                               ![p].bookings = bookings,
                               ![p].status = 200,
                               ![p].slots = << SlotsResponse(req[p].query, bookings, utcOffset) >>]
         /\ now' = now
    ELSE IF req[p].kind = "calendar"
      THEN CalendarAnswer(p, bookings) /\ now' = now
    ELSE LET body == req[p].body
             trimmedEmail == TrimmedEmail(body)
             others == BookingsWithoutEmail(bookings, trimmedEmail)
             replaced == ReplacedBooking(bookings, trimmedEmail)
         IN IF SlotBooked(others, body.date.s, body.timeSlot.s, utcOffset)
              THEN /\ req' = [req EXCEPT ![p].pc = "done",
                                         ![p].bookings = bookings,
                                         ![p].others = others,
                                         ![p].replaced = replaced,
                                         ![p].status = 400,
                                         ![p].error = ERR_SLOT_BOOKED]
                   /\ now' = now
              ELSE \E clock \in {now, now + 1} :
                     /\ now' = clock
                     /\ req' = [req EXCEPT
                          ![p].pc = IF ~kvEnabled THEN "write"
                                    ELSE IF replaced # << >> THEN "del" ELSE "set",
                          ![p].bookings = bookings,
                          ![p].others = others,
                          ![p].replaced = replaced,
                          ![p].newBooking = << NewBooking(body, clock) >>]

\* The status if a failed attachment reached the handler's catch block.
StatusAfterDispatchPropagating(ics) == IF ics = "failed" THEN 500 ELSE 200

\* The status if the handler answered a stored booking with 201 Created.
StatusAfterDispatchCreated(ics) == 201

\* The status of the response after the dispatch: errors of the notification
\* are caught inside sendBookingNotification.
StatusAfterDispatch(ics) == 200

\* The notification called twice for one request.
DispatchTwice(pending, entry) == Append(Append(pending, entry), entry)

\* void sendBookingNotification(newBooking, replacedBooking): one call more
\* in flight.
Dispatch(pending, entry) == Append(pending, entry)

\* The handler after the save: when Resend is configured it calls
\* sendBookingNotification, which generates the ICS attachment and starts the
\* send before it returns; then the 200 response is sent.
Respond200(p) ==
  \E ics \in IF resendEnabled THEN {"ok", "failed"} ELSE {"none"} :
    /\ req' = [req EXCEPT ![p].pc = "done",
                          ![p].ics = ics,
                          ![p].status = StatusAfterDispatch(ics)]
    /\ outbox' = IF resendEnabled
                   THEN Dispatch(outbox, [ n |-> req[p].n,
                                           booking |-> req[p].newBooking[1],
                                           replaced |-> req[p].replaced # << >>,
                                           ics |-> ics,
                                           send |-> "pending" ])
                   ELSE outbox

(***************************************************************************)
(* Receiving a request                                                     *)
(***************************************************************************)

\* POST /book up to its first await: the validation, then loadBookings. With
\* history, prev keeps the request this handler instance served before.
StartBook(p, body, history) ==
  /\ Free(p)
  /\ prev' = IF history THEN req[p] ELSE prev
  /\ started' = started + 1
  /\ LET error == ValidationError(body)
         fresh == [IdleRequest EXCEPT !.n = started + 1, !.kind = "book", !.body = body, !.pre = [file |-> file, kv |-> kvData]]
     IN req' = [req EXCEPT ![p] =
                  IF error # NoError
                    THEN [fresh EXCEPT !.pc = "done", !.status = 400, !.error = error]
                    ELSE [fresh EXCEPT !.pc = "load"]]
  /\ UNCHANGED << gasVars, kvEnabled, resendEnabled, utcOffset, file, kvData, now, outbox, faults >>

\* GET /available-slots up to its first await.
StartSlots(p, query, history) ==
  /\ Free(p)
  /\ prev' = IF history THEN req[p] ELSE prev
  /\ started' = started + 1
  /\ req' = [req EXCEPT ![p] =
               [IdleRequest EXCEPT !.n = started + 1, !.kind = "slots", !.query = query,
                                   !.pc = "load", !.pre = [file |-> file, kv |-> kvData]]]
  /\ UNCHANGED << gasVars, kvEnabled, resendEnabled, utcOffset, file, kvData, now, outbox, faults >>

\* GET /calendar.ics up to its first await.
StartCalendar(p, history) ==
  /\ Free(p)
  /\ prev' = IF history THEN req[p] ELSE prev
  /\ started' = started + 1
  /\ req' = [req EXCEPT ![p] =
               [IdleRequest EXCEPT !.n = started + 1, !.kind = "calendar",
                                   !.pc = "load", !.pre = [file |-> file, kv |-> kvData]]]
  /\ UNCHANGED << gasVars, kvEnabled, resendEnabled, utcOffset, file, kvData, now, outbox, faults >>

(***************************************************************************)
(* loadBookings and the save, file store                                   *)
(***************************************************************************)

\* ensureBookingsFile: await fs.access(BOOKINGS_FILE)
FileAccess(p) ==
  /\ ~kvEnabled
  /\ req[p].pc = "load"
  /\ req' = [req EXCEPT ![p].pc = IF file.kind = "absent" THEN "create" ELSE "read"]
  /\ UNCHANGED << gasVars, kvEnabled, resendEnabled, utcOffset, file, kvData, now, started, prev,
               outbox, faults >>

\* ensureBookingsFile: mkdir, then writeFile(BOOKINGS_FILE, '[]')
FileCreate(p, fail) ==
  /\ ~kvEnabled
  /\ req[p].pc = "create"
  /\ IF fail
       THEN Fail500(p) /\ file' = file
       ELSE /\ file' = EmptyFile
            /\ req' = [req EXCEPT ![p].pc = "read"]
  /\ faults' = IF fail THEN faults \cup { << req[p].n, "fs.writeFile" >> } ELSE faults
  /\ UNCHANGED << gasVars, kvEnabled, resendEnabled, utcOffset, kvData, now, started, prev, outbox >>

\* bookings.map(...) of a value JSON.parse returned: a TypeError unless the
\* value is an array.
MapThrows(kind) == kind \in {"object", "null"}

\* readFile, JSON.parse and the backfill of loadBookings: an empty text and
\* a text that is no JSON give no bookings.
FileRead(p, fail) ==
  /\ ~kvEnabled
  /\ req[p].pc = "read"
  /\ IF fail \/ MapThrows(file.kind)
       THEN Fail500(p) /\ now' = now
       ELSE IF file.kind \in {"empty", "invalid"}
         THEN AfterLoad(p, << >>)
       ELSE IF NeedsSave(file.recs)
         THEN /\ req' = [req EXCEPT ![p].pc = "backfill",
                                    ![p].bookings = Normalized(file.recs, utcOffset)]
              /\ now' = now
         ELSE AfterLoad(p, file.recs)
  /\ faults' = IF fail THEN faults \cup { << req[p].n, "fs.readFile" >> } ELSE faults
  /\ UNCHANGED << gasVars, kvEnabled, resendEnabled, utcOffset, file, kvData, started, prev, outbox >>

\* await saveBookings(normalized) of loadBookings
FileBackfill(p, fail) ==
  /\ ~kvEnabled
  /\ req[p].pc = "backfill"
  /\ IF fail
       THEN Fail500(p) /\ file' = file /\ now' = now
       ELSE /\ file' = [kind |-> "array", recs |-> req[p].bookings]
            /\ AfterLoad(p, req[p].bookings)
  /\ faults' = IF fail THEN faults \cup { << req[p].n, "saveBookings" >> } ELSE faults
  /\ UNCHANGED << gasVars, kvEnabled, resendEnabled, utcOffset, kvData, started, prev, outbox >>

\* finalBookings built on the file as it is at the write, not as it was loaded.
FinalBookingsOnCurrentFile(others, newBooking) == file.recs \o newBooking

\* finalBookings without newBooking.
FinalBookingsWithoutNew(others, newBooking) == others

\* const finalBookings = [...bookingsWithoutEmail, newBooking]
FinalBookings(others, newBooking) == others \o newBooking

\* await saveBookings(finalBookings), then the notification and the response
FileWrite(p, fail) ==
  /\ ~kvEnabled
  /\ req[p].pc = "write"
  /\ IF fail
       THEN Fail500(p) /\ file' = file /\ outbox' = outbox
       ELSE /\ file' = [kind |-> "array",
                        recs |-> FinalBookings(req[p].others, req[p].newBooking)]
            /\ Respond200(p)
  /\ faults' = IF fail THEN faults \cup { << req[p].n, "saveBookings" >> } ELSE faults
  /\ UNCHANGED << gasVars, kvEnabled, resendEnabled, utcOffset, kvData, now, started, prev >>

(***************************************************************************)
(* loadBookings and the save, Vercel KV                                    *)
(***************************************************************************)

\* All the orders in which kv.keys('booking:*') may list the keys.
RECURSIVE KeyOrders(_)
KeyOrders(S) ==
  IF S = {} THEN { << >> }
  ELSE UNION { { << k >> \o rest : rest \in KeyOrders(S \ {k}) } : k \in S }

\* The keys by ascending id.
RECURSIVE AscendingKeys(_)
AscendingKeys(S) ==
  IF S = {} THEN << >>
  ELSE LET k == CHOOSE x \in S : \A y \in S : DigitsValue(x) <= DigitsValue(y)
       IN << k >> \o AscendingKeys(S \ {k})

\* await kv.keys('booking:*'); a failure is caught and gives no bookings
KvKeys(p, fail, orders) ==
  /\ kvEnabled
  /\ req[p].pc = "load"
  /\ IF fail \/ DOMAIN kvData = {}
       THEN AfterLoad(p, << >>)
       ELSE /\ \E order \in orders : req' = [req EXCEPT ![p].pc = "get", ![p].keys = order]
            /\ now' = now
  /\ faults' = IF fail THEN faults \cup { << req[p].n, "kv.keys" >> } ELSE faults
  /\ UNCHANGED << gasVars, kvEnabled, resendEnabled, utcOffset, file, kvData, started, prev, outbox >>

\* for (const key of allKeys) { const booking = await kv.get(key); if (booking) ... }
\* read in one step; a key deleted since kv.keys gives null and is skipped
KvLoaded(keys, data) ==
  LET present == SelectSeq(keys, LAMBDA k : k \in DOMAIN data)
  IN [i \in 1..Len(present) |-> data[present[i]]]

KvGet(p, fail) ==
  /\ kvEnabled
  /\ req[p].pc = "get"
  /\ AfterLoad(p, IF fail THEN << >> ELSE KvLoaded(req[p].keys, kvData))
  /\ faults' = IF fail THEN faults \cup { << req[p].n, "kv.get" >> } ELSE faults
  /\ UNCHANGED << gasVars, kvEnabled, resendEnabled, utcOffset, file, kvData, started, prev, outbox >>

KvRemove(data, id) == [k \in DOMAIN data \ {id} |-> data[k]]

KvPut(data, booking) ==
  [k \in DOMAIN data \cup {booking.id} |-> IF k = booking.id THEN booking ELSE data[k]]

\* await kv.del(`booking:${replacedBooking.id}`); a failure is logged only
KvDel(p, fail) ==
  /\ kvEnabled
  /\ req[p].pc = "del"
  /\ kvData' = IF fail THEN kvData ELSE KvRemove(kvData, req[p].replaced[1].id)
  /\ req' = [req EXCEPT ![p].pc = "set"]
  /\ faults' = IF fail THEN faults \cup { << req[p].n, "kv.del" >> } ELSE faults
  /\ UNCHANGED << gasVars, kvEnabled, resendEnabled, utcOffset, file, now, started, prev, outbox >>

\* await kv.set(`booking:${newBooking.id}`, newBooking), then the notification
\* and the response
KvSet(p, fail) ==
  /\ kvEnabled
  /\ req[p].pc = "set"
  /\ IF fail
       THEN Fail500(p) /\ kvData' = kvData /\ outbox' = outbox
       ELSE /\ kvData' = KvPut(kvData, req[p].newBooking[1])
            /\ Respond200(p)
  /\ faults' = IF fail THEN faults \cup { << req[p].n, "kv.set" >> } ELSE faults
  /\ UNCHANGED << gasVars, kvEnabled, resendEnabled, utcOffset, file, now, started, prev >>

(***************************************************************************)
(* sendBookingNotification after the response                              *)
(***************************************************************************)

\* await resendClient.emails.send(...): a failure is logged only
NotifySent(i, fail) ==
  /\ outbox[i].send = "pending"
  /\ outbox' = [outbox EXCEPT ![i].send = IF fail THEN "failed" ELSE "sent"]
  /\ UNCHANGED << gasVars, kvEnabled, resendEnabled, utcOffset, file, kvData, now, started, req, prev,
               faults >>

(***************************************************************************)
(* Requests the specifications draw from                                   *)
(***************************************************************************)

EmailA == << "a", "@", "x", ".", "c" >>
EmailAPadded == << " ", "A", "@", "x", ".", "c", " " >>
EmailB == << "b", "@", "x", ".", "c" >>

FirstDay == IsoDate(2025, 11, 24)
LastDay == IsoDate(2025, 12, 5)

\* A submission that passes every check of POST /book.
ValidBody(date, timeSlot, email) ==
  [ date |-> JStr(date),
    timeSlot |-> JStr(timeSlot),
    name |-> JStr(<< "N" >>),
    email |-> JStr(email),
    gender |-> JStr(<< "f" >>),
    age |-> JNum(30),
    education |-> JStr(<< "o", "t", "h", "e", "r" >>),
    nativePolishSpeaker |-> JTrue ]

\* Date and slot pairs: two slots of one day and one slot of another day.
SomeSlots == { << FirstDay, Slot(8) >>, << FirstDay, Slot(19) >>, << LastDay, Slot(8) >> }

SeqBodies ==
  { ValidBody(ds[1], ds[2], e) : ds \in SomeSlots, e \in {EmailA, EmailAPadded, EmailB} }

\* A query date that is an array (?date=a&date=b), not a string.
JArray == [t |-> "object", s |-> << "a", ",", "b" >>]

SeqQueries ==
  { JStr(FirstDay), JStr(LastDay), Undefined, JArray,
    JStr(IsoDate(2025, 12, 6)), JStr(IsoDate(2025, 11, 31)) }

ConcBodies ==
  { ValidBody(FirstDay, Slot(8), EmailA),
    ValidBody(FirstDay, Slot(19), EmailAPadded),
    ValidBody(FirstDay, Slot(8), EmailB) }

ConcQueries == { JStr(FirstDay) }

(***************************************************************************)
(* Specifications                                                          *)
(***************************************************************************)

\* The number of requests a behaviour of Spec receives.
MaxRequests == 3

\* Any interleaving of the handlers' steps between their awaits, every store
\* call and the notification free to fail.
Next ==
  \/ started < MaxRequests /\ \E p \in Handlers, body \in ConcBodies : StartBook(p, body, FALSE)
  \/ started < MaxRequests /\ \E p \in Handlers, query \in ConcQueries : StartSlots(p, query, FALSE)
  \/ \E p \in Handlers : FileAccess(p)
  \/ \E p \in Handlers, fail \in BOOLEAN : FileCreate(p, fail)
  \/ \E p \in Handlers, fail \in BOOLEAN : FileRead(p, fail)
  \/ \E p \in Handlers, fail \in BOOLEAN : FileWrite(p, fail)
  \/ \E p \in Handlers, fail \in BOOLEAN : KvKeys(p, fail, KeyOrders(DOMAIN kvData))
  \/ \E p \in Handlers, fail \in BOOLEAN : KvGet(p, fail)
  \/ \E p \in Handlers, fail \in BOOLEAN : KvDel(p, fail)
  \/ \E p \in Handlers, fail \in BOOLEAN : KvSet(p, fail)

InitConc == Init /\ resendEnabled = FALSE

Spec == InitConc /\ [][Next]_vars

\* The number of requests a behaviour of SpecRace receives.
MaxRaceRequests == 2

\* Two e-mails asking for one slot.
RaceBodies == { ValidBody(FirstDay, Slot(8), EmailA), ValidBody(FirstDay, Slot(8), EmailB) }

\* Any interleaving of the steps of POST /book requests between their
\* awaits, no store call failing.
NextRace ==
  \/ started < MaxRaceRequests
       /\ \E p \in Handlers, body \in RaceBodies : StartBook(p, body, FALSE)
  \/ \E p \in Handlers : FileAccess(p)
  \/ \E p \in Handlers : FileCreate(p, FALSE)
  \/ \E p \in Handlers : FileRead(p, FALSE)
  \/ \E p \in Handlers : FileWrite(p, FALSE)
  \/ \E p \in Handlers : KvKeys(p, FALSE, KeyOrders(DOMAIN kvData))
  \/ \E p \in Handlers : KvGet(p, FALSE)
  \/ \E p \in Handlers : KvDel(p, FALSE)
  \/ \E p \in Handlers : KvSet(p, FALSE)

SpecRace == InitConc /\ [][NextRace]_vars

\* The number of requests a behaviour of SpecSeq receives.
MaxSeqRequests == 3

InitSeq == Init /\ resendEnabled = FALSE

\* One request at a time, served to its response by handler 1, no store call
\* failing.
NextSeq ==
  \/ started < MaxSeqRequests /\ \E body \in SeqBodies : StartBook(1, body, TRUE)
  \/ started < MaxSeqRequests /\ \E query \in SeqQueries : StartSlots(1, query, TRUE)
  \/ FileAccess(1)
  \/ FileCreate(1, FALSE)
  \/ FileRead(1, FALSE)
  \/ FileWrite(1, FALSE)
  \/ KvKeys(1, FALSE, KeyOrders(DOMAIN kvData))
  \/ KvGet(1, FALSE)
  \/ KvDel(1, FALSE)
  \/ KvSet(1, FALSE)

SpecSeq == InitSeq /\ [][NextSeq]_vars

\* One request at a time, every store call free to fail.
NextFaults ==
  \/ started < MaxSeqRequests /\ \E body \in ConcBodies : StartBook(1, body, TRUE)
  \/ started < MaxSeqRequests /\ \E query \in ConcQueries : StartSlots(1, query, TRUE)
  \/ FileAccess(1)
  \/ \E fail \in BOOLEAN : FileCreate(1, fail)
  \/ \E fail \in BOOLEAN : FileRead(1, fail)
  \/ \E fail \in BOOLEAN : FileWrite(1, fail)
  \/ \E fail \in BOOLEAN : KvKeys(1, fail, KeyOrders(DOMAIN kvData))
  \/ \E fail \in BOOLEAN : KvGet(1, fail)
  \/ \E fail \in BOOLEAN : KvDel(1, fail)
  \/ \E fail \in BOOLEAN : KvSet(1, fail)

SpecFaults == InitSeq /\ [][NextFaults]_vars

\* The number of requests a behaviour of SpecNotify receives.
MaxNotifyRequests == 2

NotifyBodies ==
  { ValidBody(FirstDay, Slot(8), EmailA), ValidBody(FirstDay, Slot(19), EmailAPadded) }

InitNotify == Init /\ resendEnabled = TRUE

\* One request at a time with Resend configured: every store call, the ICS
\* attachment and the send call are free to fail, and a send may still be in
\* flight while later requests are served.
NextNotify ==
  \/ started < MaxNotifyRequests /\ \E body \in NotifyBodies : StartBook(1, body, TRUE)
  \/ FileAccess(1)
  \/ \E fail \in BOOLEAN : FileCreate(1, fail)
  \/ \E fail \in BOOLEAN : FileRead(1, fail)
  \/ \E fail \in BOOLEAN : FileWrite(1, fail)
  \/ \E fail \in BOOLEAN : KvKeys(1, fail, KeyOrders(DOMAIN kvData))
  \/ \E fail \in BOOLEAN : KvGet(1, fail)
  \/ \E fail \in BOOLEAN : KvDel(1, fail)
  \/ \E fail \in BOOLEAN : KvSet(1, fail)
  \/ \E i \in DOMAIN outbox, fail \in BOOLEAN : NotifySent(i, fail)

SpecNotify == InitNotify /\ [][NextNotify]_vars

\* Every request the validation tells apart: each field missing, present but
\* rejected, or accepted, in more than one way.
DateInputs ==
  { Undefined, JNum(20251124), JStr(FirstDay), JStr(LastDay),
    JStr(IsoDate(2025, 11, 23)), JStr(IsoDate(2025, 12, 6)),
    JStr(IsoDate(2025, 11, 31)),
    JStr(<< "2", "0", "2", "5", "-", "1", "1", "-", "3" >>),
    JStr(<< "2", "0", "2", "5", "-", "1", "2" >>) }

TimeSlotInputs == { Undefined, JStr(Slot(7)), JStr(Slot(8)) }

NameInputs == { Undefined, JStr(<< "N" >>) }

EmailInputs ==
  { Undefined, JNum(5), JStr(<< "a", "@", "x", "c" >>), JStr(EmailA), JStr(EmailAPadded) }

GenderInputs == { Undefined, JStr(<< "f" >>) }

AgeInputs ==
  { Undefined, Null, JStr(<< >>), JNum(17), JNum(18), JNum(121),
    JStr(<< "3", "0" >>), JStr(<< "2", "0", "a", "b" >>) }

EducationInputs ==
  { Undefined, JStr(<< "p", "h", "d" >>), JStr(<< "h", "i", "g", "h", "e", "r" >>) }

NativeInputs == { Undefined, JFalse, JTrue, JStr(<< "n", "o" >>) }

AllBodies ==
  [ date : DateInputs, timeSlot : TimeSlotInputs, name : NameInputs,
    email : EmailInputs, gender : GenderInputs, age : AgeInputs,
    education : EducationInputs, nativePolishSpeaker : NativeInputs ]

AllQueries == DateInputs \cup { JArray, JStr(<< >>) }

\* One request, of any content, to the empty store, no store call failing.
NextValidate ==
  \/ started = 0 /\ \E body \in AllBodies : StartBook(1, body, TRUE)
  \/ started = 0 /\ \E query \in AllQueries : StartSlots(1, query, TRUE)
  \/ FileAccess(1)
  \/ FileCreate(1, FALSE)
  \/ FileRead(1, FALSE)
  \/ FileWrite(1, FALSE)
  \/ KvKeys(1, FALSE, KeyOrders(DOMAIN kvData))
  \/ KvSet(1, FALSE)

SpecValidate == InitSeq /\ [][NextValidate]_vars

\* The number of requests a behaviour of SpecLegacy receives.
MaxLegacyRequests == 2

\* Records an earlier version of the program left: one as POST /book writes
\* it, one without date, one with neither date nor timestamp, one without
\* timeSlot.
LegacyRecords ==
  LET base(slot, email, clock) == NewBooking(ValidBody(FirstDay, slot, email), clock)
  IN << base(Slot(8), EmailA, 1),
        [base(Slot(9), EmailB, 2) EXCEPT !.date = << >>,
                                         !.timestamp = << [day |-> 24, hour |-> 12, ms |-> 2] >>],
        [base(Slot(10), << "c", "@", "x", ".", "c" >>, 3)
           EXCEPT !.date = << >>, !.timestamp = << >>],
        [base(Slot(11), << "d", "@", "x", ".", "c" >>, 4) EXCEPT !.timeSlot = << >>] >>

\* The contents all-bookings.json may have: no array, or an array of up to
\* two of the records.
LegacyFiles ==
  { [kind |-> k, recs |-> << >>] : k \in {"absent", "empty", "invalid", "object", "null"} }
    \cup { [kind |-> "array", recs |-> << >>] }
    \cup { [kind |-> "array", recs |-> << LegacyRecords[i] >>] : i \in DOMAIN LegacyRecords }
    \cup { [kind |-> "array", recs |-> << LegacyRecords[ij[1]], LegacyRecords[ij[2]] >>] :
              ij \in { x \in (DOMAIN LegacyRecords) \X (DOMAIN LegacyRecords) : x[1] # x[2] } }

\* The contents Vercel KV may have: up to two of the records, by id.
LegacyKvs ==
  { [id \in { LegacyRecords[i].id : i \in I } |-> LegacyRecords[DigitsValue(id)]] :
      I \in { J \in SUBSET DOMAIN LegacyRecords : Cardinality(J) <= 2 } }

LegacyBodies == { ValidBody(FirstDay, Slot(9), EmailA), ValidBody(LastDay, Slot(8), EmailB) }

LegacyQueries == { JStr(FirstDay), JStr(LastDay) }

InitLegacy ==
  /\ kvEnabled \in BOOLEAN
  /\ resendEnabled = FALSE
  /\ utcOffset = 0
  /\ file \in IF kvEnabled THEN { [kind |-> "absent", recs |-> << >>] } ELSE LegacyFiles
  /\ kvData \in IF kvEnabled THEN LegacyKvs ELSE { << >> }
  /\ now = Len(LegacyRecords) + 1
  /\ started = 0
  /\ req = [p \in Handlers |-> IdleRequest]
  /\ prev = IdleRequest
  /\ outbox = << >>
  /\ faults = {}
  /\ SheetIdle

\* One request at a time to a store with such contents, no store call
\* failing.
NextLegacy ==
  \/ started < MaxLegacyRequests /\ \E body \in LegacyBodies : StartBook(1, body, TRUE)
  \/ started < MaxLegacyRequests /\ \E query \in LegacyQueries : StartSlots(1, query, TRUE)
  \/ started < MaxLegacyRequests /\ StartCalendar(1, TRUE)
  \/ FileAccess(1)
  \/ FileCreate(1, FALSE)
  \/ FileRead(1, FALSE)
  \/ FileBackfill(1, FALSE)
  \/ FileWrite(1, FALSE)
  \/ KvKeys(1, FALSE, KeyOrders(DOMAIN kvData))
  \/ KvGet(1, FALSE)
  \/ KvDel(1, FALSE)
  \/ KvSet(1, FALSE)

SpecLegacy == InitLegacy /\ [][NextLegacy]_vars

\* The number of records, of as many e-mails, the store of SpecCap starts with.
StoredBefore == 30

\* The number of requests a behaviour of SpecCap receives.
MaxCapRequests == 2

CapEmail(i) == << "u" >> \o ToDecimal(i) \o << "@", "x", ".", "c" >>

\* The i-th record of the full store: booked at clock reading i, twelve
\* slots a day from 24 November on.
CapRecord(i) ==
  NewBooking(ValidBody(DayString(24 + ((i - 1) \div 12)),
                       ALL_TIME_SLOTS[((i - 1) % 12) + 1],
                       CapEmail(i)),
             i)

CapRecords == [i \in 1..StoredBefore |-> CapRecord(i)]

\* A new e-mail and two stored ones, for a free slot, for a slot the first
\* stored e-mail holds and for the slot the second holds.
CapBodies ==
  { ValidBody(LastDay, Slot(8), EmailB),
    ValidBody(FirstDay, Slot(8), EmailB),
    ValidBody(LastDay, Slot(8), CapEmail(1)),
    ValidBody(LastDay, Slot(19), CapEmail(2)),
    ValidBody(FirstDay, Slot(9), CapEmail(2)) }

\* The store after StoredBefore requests of as many e-mails were served.
InitCap ==
  /\ kvEnabled \in BOOLEAN
  /\ resendEnabled = FALSE
  /\ utcOffset = 0
  /\ file = IF kvEnabled THEN [kind |-> "absent", recs |-> << >>]
                        ELSE [kind |-> "array", recs |-> CapRecords]
  /\ kvData = IF kvEnabled
                THEN [id \in { CapRecords[i].id : i \in 1..StoredBefore } |->
                        CapRecords[DigitsValue(id)]]
                ELSE << >>
  /\ now = StoredBefore
  /\ started = 0
  /\ req = [p \in Handlers |-> IdleRequest]
  /\ prev = IdleRequest
  /\ outbox = << >>
  /\ faults = {}
  /\ SheetIdle

\* One request at a time to the full store, no store call failing; kv.keys
\* lists the keys by ascending id.
NextCap ==
  \/ started < MaxCapRequests /\ \E body \in CapBodies : StartBook(1, body, TRUE)
  \/ FileAccess(1)
  \/ FileRead(1, FALSE)
  \/ FileWrite(1, FALSE)
  \/ KvKeys(1, FALSE, { AscendingKeys(DOMAIN kvData) })
  \/ KvGet(1, FALSE)
  \/ KvDel(1, FALSE)
  \/ KvSet(1, FALSE)

SpecCap == InitCap /\ [][NextCap]_vars

\* The number of requests a behaviour of SpecReadRace receives.
MaxReadRaceRequests == 2

\* The older record that has a timestamp and no date.
UndatedRecord == LegacyRecords[2]

ReadRaceBodies == { ValidBody(FirstDay, Slot(8), EmailA) }

\* The store empty or holding the undated record.
InitReadRace ==
  /\ kvEnabled \in BOOLEAN
  /\ resendEnabled = FALSE
  /\ utcOffset = 0
  /\ file \in IF kvEnabled THEN { [kind |-> "absent", recs |-> << >>] }
                           ELSE { [kind |-> "absent", recs |-> << >>],
                                  [kind |-> "array", recs |-> << UndatedRecord >>] }
  /\ kvData \in IF kvEnabled
                  THEN { << >>, [id \in { UndatedRecord.id } |-> UndatedRecord] }
                  ELSE { << >> }
  /\ now = Len(LegacyRecords) + 1
  /\ started = 0
  /\ req = [p \in Handlers |-> IdleRequest]
  /\ prev = IdleRequest
  /\ outbox = << >>
  /\ faults = {}
  /\ SheetIdle

\* The read endpoints and POST /book interleaved between their awaits, no
\* store call failing.
NextReadRace ==
  \/ started < MaxReadRaceRequests
       /\ \E p \in Handlers, body \in ReadRaceBodies : StartBook(p, body, FALSE)
  \/ started < MaxReadRaceRequests
       /\ \E p \in Handlers, query \in LegacyQueries : StartSlots(p, query, FALSE)
  \/ started < MaxReadRaceRequests /\ \E p \in Handlers : StartCalendar(p, FALSE)
  \/ \E p \in Handlers : FileAccess(p)
  \/ \E p \in Handlers : FileCreate(p, FALSE)
  \/ \E p \in Handlers : FileRead(p, FALSE)
  \/ \E p \in Handlers : FileBackfill(p, FALSE)
  \/ \E p \in Handlers : FileWrite(p, FALSE)
  \/ \E p \in Handlers : KvKeys(p, FALSE, KeyOrders(DOMAIN kvData))
  \/ \E p \in Handlers : KvGet(p, FALSE)
  \/ \E p \in Handlers : KvDel(p, FALSE)
  \/ \E p \in Handlers : KvSet(p, FALSE)

SpecReadRace == InitReadRace /\ [][NextReadRace]_vars

(***************************************************************************)
(* processBooking of the Google Apps Script variant                        *)
(***************************************************************************)

\* (data.email || '').trim().toLowerCase(); trim is no function of a value
\* that is truthy and no string, and the call throws a TypeError.
EmailThrows(data) == data.email.t # "string" /\ ~Falsy(data.email)

GasEmail(data) == IF data.email.t = "string" THEN ToLowerCase(Trim(data.email.s)) ELSE << >>

\* findRowByEmail: the first row from row 2 on whose column E, trimmed and
\* lowercased, is email; 0 for null.
findRowByEmail(rows, email) ==
  LET found == { i \in 2..Len(rows) : ToLowerCase(Trim(rows[i].email)) = ToLowerCase(Trim(email)) }
  IN IF found = {} THEN 0 ELSE CHOOSE i \in found : \A j \in found : i <= j

\* rowData, columns A, B, C, E and J: data.id || Date.now().toString(), the
\* clock read as the number of the call.
RowData(data, email, n) ==
  [ id |-> IF Falsy(data.id) THEN ToDecimal(n) ELSE data.id.s,
    date |-> data.date.s,
    timeSlot |-> data.timeSlot.s,
    email |-> email,
    eventId |-> 0 ]

\* setValues on the existing row, or appendRow after the last row.
WriteRow(rows, existingRow, rowData) ==
  IF existingRow # 0 THEN [rows EXCEPT ![existingRow] = rowData] ELSE Append(rows, rowData)

\* The server's state, which processBooking does not touch.
ServerUnchanged ==
  UNCHANGED << kvEnabled, resendEnabled, utcOffset, file, kvData, now, started, req, prev,
               outbox, faults >>

\* processBooking up to the row written: the sheet opened, the e-mail
\* normalized, the row of the e-mail looked up and its old event id read,
\* the row overwritten in place or appended.
GasStart(data, sheetFound) ==
  /\ call.pc \in {"idle", "done"}
  /\ calls' = calls + 1
  /\ LET fresh == [IdleCall EXCEPT !.n = calls + 1, !.data = data,
                                   !.pre = [sheet |-> sheet, calendar |-> calendar]]
         email == GasEmail(data)
         existingRow == findRowByEmail(sheet, email)
         rowData == RowData(data, email, calls + 1)
     IN IF ~sheetFound \/ EmailThrows(data)
          THEN /\ call' = [fresh EXCEPT !.pc = "done", !.thrown = TRUE]
               /\ sheet' = sheet
        ELSE IF email = << >>
          THEN /\ call' = [fresh EXCEPT !.pc = "done"]
               /\ sheet' = sheet
        ELSE /\ sheet' = WriteRow(sheet, existingRow, rowData)
             /\ call' = [fresh EXCEPT
                   !.email = email,
                   !.existingRow = existingRow,
                   !.oldEventId = IF existingRow # 0 THEN sheet[existingRow].eventId ELSE 0,
                   !.targetRow = IF existingRow # 0 THEN existingRow ELSE Len(sheet) + 1,
                   !.bookingId = rowData.id,
                   !.pc = IF existingRow # 0 /\ sheet[existingRow].eventId # 0
                            THEN "delete" ELSE "create"]
  /\ calendar' = calendar
  /\ ServerUnchanged

\* The old event deleted: getCalendarById may return null and getEventById
\* may find no event, which skip the deletion, and any of the calls may
\* throw, which is logged.
GasDelete(outcome) ==
  /\ call.pc = "delete"
  /\ calendar' = IF outcome = "deleted"
                   THEN { e \in calendar : e.id # call.oldEventId }
                   ELSE calendar
  /\ call' = [call EXCEPT !.pc = "create",
                          !.failed = IF outcome = "deleted" THEN @ ELSE @ \cup {"delete"}]
  /\ UNCHANGED << sheet, calls >>
  /\ ServerUnchanged

\* createCalendarEvent(data): null without a calendar, the id of the new
\* event otherwise; a throw is caught by processBooking.
GasCreate(outcome) ==
  /\ call.pc = "create"
  /\ IF outcome = "created"
       THEN /\ calendar' = calendar \cup { [ id |-> call.n, email |-> call.data.email.s,
                                              date |-> call.data.date.s,
                                              timeSlot |-> call.data.timeSlot.s ] }
            /\ call' = [call EXCEPT !.pc = "setId", !.calendarEventId = call.n]
       ELSE /\ calendar' = calendar
            /\ call' = [call EXCEPT !.pc = "mail", !.failed = @ \cup {"create"}]
  /\ UNCHANGED << sheet, calls >>
  /\ ServerUnchanged

\* sheet.getRange(targetRow, 10).setValue(calendarEventId), inside the try
GasSetId(fail) ==
  /\ call.pc = "setId"
  /\ sheet' = IF fail THEN sheet
                     ELSE [sheet EXCEPT ![call.targetRow].eventId = call.calendarEventId]
  /\ call' = [call EXCEPT !.pc = "mail", !.failed = IF fail THEN @ \cup {"setId"} ELSE @]
  /\ UNCHANGED << calendar, calls >>
  /\ ServerUnchanged

\* The result with a failure of the e-mails reaching the caller.
GasResultPropagating(failed) == [success |-> failed = {}, thrown |-> failed # {}]

\* return { success: true, ... } after the try blocks of lines 111-145
GasResult(failed) == [success |-> TRUE, thrown |-> FALSE]

\* sendNotificationEmail inside its try: the send to NOTIFY_EMAILS and the
\* confirmation to the booker each in a try of their own, anything else
\* thrown caught by processBooking; then the result is returned.
GasMail(labFails, confirmationFails, throws) ==
  /\ call.pc = "mail"
  /\ LET failed == call.failed
                     \cup (IF labFails THEN {"notification"} ELSE {})
                     \cup (IF confirmationFails THEN {"confirmation"} ELSE {})
                     \cup (IF throws THEN {"mail"} ELSE {})
     IN call' = [call EXCEPT !.pc = "done", !.failed = failed,
                             !.success = GasResult(failed).success,
                             !.thrown = GasResult(failed).thrown]
  /\ UNCHANGED << sheet, calendar, calls >>
  /\ ServerUnchanged

\* The number of processBooking calls of a behaviour of SpecSheet.
MaxCalls == 2

GasSlots == { << FirstDay, Slot(8) >>, << LastDay, Slot(9) >> }

\* The bookings posted to the script: no e-mail, a blank one, one that is
\* no string, two spellings of one address and another address; with an id
\* or without.
GasData ==
  { [ id |-> id, date |-> JStr(ds[1]), timeSlot |-> JStr(ds[2]), email |-> email ] :
      id \in { Undefined, JStr(<< "7" >>) },
      ds \in GasSlots,
      email \in { Undefined, JStr(<< " " >>), JNum(5),
                  JStr(EmailA), JStr(EmailAPadded), JStr(EmailB) } }

\* The server idle; Sheet1 with its header row or without any row.
InitSheet ==
  /\ kvEnabled = FALSE
  /\ resendEnabled = FALSE
  /\ utcOffset = 0
  /\ file = [kind |-> "absent", recs |-> << >>]
  /\ kvData = << >>
  /\ now = 0
  /\ started = 0
  /\ req = [p \in Handlers |-> IdleRequest]
  /\ prev = IdleRequest
  /\ outbox = << >>
  /\ faults = {}
  /\ sheet \in { << >>, << HeaderRow >> }
  /\ calendar = {}
  /\ call = IdleCall
  /\ calls = 0

\* processBooking called one execution at a time, every call to the
\* spreadsheet, the calendar and the mail service free to fail.
NextSheet ==
  \/ calls < MaxCalls /\ \E data \in GasData, sheetFound \in BOOLEAN : GasStart(data, sheetFound)
  \/ \E outcome \in {"deleted", "skipped", "thrown"} : GasDelete(outcome)
  \/ \E outcome \in {"created", "missing", "thrown"} : GasCreate(outcome)
  \/ \E fail \in BOOLEAN : GasSetId(fail)
  \/ \E labFails, confirmationFails, throws \in BOOLEAN :
       GasMail(labFails, confirmationFails, throws)

SpecSheet == InitSheet /\ [][NextSheet]_vars

(***************************************************************************)
(* Properties                                                              *)
(***************************************************************************)

BookDone(p) == req[p].kind = "book" /\ req[p].pc = "done"

SlotsDone(p) == req[p].kind = "slots" /\ req[p].pc = "done"

NormalizedEmailOf(b) == normalizeEmail(JStr(b.email))

\* The error a finished POST /book answered with, NoError for a 200.
AnsweredError(p) == IF req[p].status = 200 THEN NoError ELSE req[p].error

\* Check i of the validation, in the numbering of the specification. Check
\* 1 covers the attestation only when attested.
CheckFails(i, body, attested) ==
  CASE i = 1 -> \/ RequiredMissing(body)
                \/ attested /\ body.nativePolishSpeaker \in {Undefined, Null}
    [] i = 2 -> ~isValidBookingDate(body.date)
    [] i = 3 -> ~IsTimeSlot(body.timeSlot)
    [] i = 4 -> ~isValidEmail(JStr(TrimmedEmail(body)))
    [] i = 5 -> AgeOutOfRange(body)
    [] i = 6 -> ~(body.education.t = "string" /\ body.education.s \in ALLOWED_EDUCATION_LEVELS)
    [] i = 7 -> Falsy(body.nativePolishSpeaker)

CheckError == << ERR_REQUIRED, ERR_DATE, ERR_SLOT, ERR_EMAIL, ERR_AGE, ERR_EDUCATION, ERR_NATIVE >>

FirstFailingError(body, attested) ==
  IF \A i \in 1..7 : ~CheckFails(i, body, attested) THEN NoError
  ELSE CheckError[CHOOSE i \in 1..7 :
                    /\ CheckFails(i, body, attested)
                    /\ \A j \in 1..(i - 1) : ~CheckFails(j, body, attested)]

\* C9, as stated: POST /book answers with the error of the first failing
\* check in the order required fields (the attestation among them), date,
\* timeSlot, e-mail, age, education, attestation; a submission that omits
\* only nativePolishSpeaker is rejected by the first check.
C9_AsStated ==
  \A p \in Handlers : BookDone(p) => AnsweredError(p) = FirstFailingError(req[p].body, TRUE)

\* C9, amended: POST /book answers with the error of the first failing check
\* in the order (1) date, timeSlot, name, email, gender, education truthy and
\* age neither undefined nor null, (2) date, (3) timeSlot, (4) e-mail
\* pattern, (5) age, (6) education, (7) attestation truthy; an omitted
\* attestation is rejected by check 7, not by check 1.
C9_ValidationOrder ==
  \A p \in Handlers : BookDone(p) => AnsweredError(p) = FirstFailingError(req[p].body, FALSE)

\* A submission whose date and age both fail was answered with the date error.
C9_Witness ==
  \E p \in Handlers :
    /\ BookDone(p)
    /\ req[p].status = 400
    /\ req[p].error = ERR_DATE
    /\ CheckFails(5, req[p].body, FALSE)
    /\ CheckFails(7, req[p].body, FALSE)

\* C5, as stated: a submission that passes the validation, posted to the empty
\* store, leaves exactly one record whose fields equal the submitted values.
C5_AsStated ==
  \A p \in Handlers :
    BookDone(p) /\ ValidationError(req[p].body) = NoError =>
      /\ StoreCount = 1
      /\ \A r \in StoreRecords :
           /\ JStr(r.date) = req[p].body.date
           /\ JStr(r.timeSlot) = req[p].body.timeSlot
           /\ r.name = req[p].body.name
           /\ JStr(r.email) = req[p].body.email
           /\ r.gender = req[p].body.gender
           /\ JNum(r.age) = req[p].body.age
           /\ JStr(r.education) = req[p].body.education
           /\ (IF r.nativePolishSpeaker THEN JTrue ELSE JFalse) = req[p].body.nativePolishSpeaker

\* C5, amended: a submission that passes the validation, posted to the empty
\* store, is answered 200 and leaves exactly one record: date, timeSlot, name,
\* gender and education as submitted, the e-mail trimmed (its case kept), the
\* age as parseInt(age, 10) reads it, nativePolishSpeaker true, and an id
\* that is the clock reading.
C5_OneRecordStored ==
  \A p \in Handlers :
    BookDone(p) /\ ValidationError(req[p].body) = NoError =>
      /\ req[p].status = 200
      /\ StoreCount = 1
      /\ \A r \in StoreRecords :
           /\ JStr(r.date) = req[p].body.date
           /\ JStr(r.timeSlot) = req[p].body.timeSlot
           /\ r.name = req[p].body.name
           /\ r.email = Trim(req[p].body.email.s)
           /\ r.gender = req[p].body.gender
           /\ r.age = ParseInt(req[p].body.age).n
           /\ JStr(r.education) = req[p].body.education
           /\ r.nativePolishSpeaker = TRUE
           /\ r.id = ToDecimal(now)

\* A padded, capitalised e-mail and an age sent as a string were stored.
C5_Witness ==
  \E p \in Handlers :
    /\ BookDone(p)
    /\ req[p].status = 200
    /\ req[p].body.email = JStr(EmailAPadded)
    /\ req[p].body.age = JStr(<< "3", "0" >>)
    /\ StoreCount = 1

\* The store as the request found it when it arrived.
PreRecords(p) == IF kvEnabled THEN Range(req[p].pre.kv) ELSE Range(req[p].pre.file.recs)

PreCount(p) == IF kvEnabled THEN Cardinality(DOMAIN req[p].pre.kv) ELSE Len(req[p].pre.file.recs)

\* Some record of the store the request found has the request's e-mail.
HoldsBooking(p) ==
  \E r \in PreRecords(p) : NormalizedEmailOf(r) = normalizeEmail(req[p].body.email)

TakenByOther(p) ==
  \E r \in PreRecords(p) :
    /\ NormalizedEmailOf(r) # normalizeEmail(req[p].body.email)
    /\ BookingDate(r, utcOffset) = req[p].body.date.s
    /\ r.timeSlot = req[p].body.timeSlot.s

\* C6, as stated: with 30 stored records of 30 e-mails, a valid POST /book
\* from a new e-mail is rejected, one from a stored e-mail is accepted as a
\* replacement, and the store never holds more than 30 records.
C6_AsStated ==
  /\ StoreCount <= StoredBefore
  /\ BookDone(1) /\ ValidationError(req[1].body) = NoError /\ PreCount(1) >= StoredBefore =>
       IF HoldsBooking(1)
         THEN TakenByOther(1) \/ req[1].status = 200
         ELSE req[1].status = 400

\* C6, amended: POST /book counts no records. With 30 or more stored records,
\* a valid request for a slot no other e-mail holds, served alone with the
\* store calls succeeding, is answered 200 and its record stored, from a new
\* e-mail as from a stored one; a new e-mail makes the store one record
\* larger (on KV, when its id is not yet a key), a stored one leaves the
\* file with as many records as before.
C6_NoCap ==
  BookDone(1) /\ ValidationError(req[1].body) = NoError
              /\ PreCount(1) >= StoredBefore /\ ~TakenByOther(1) =>
    /\ req[1].status = 200
    /\ req[1].newBooking[1] \in StoreRecords
    /\ ~HoldsBooking(1) /\ (kvEnabled => req[1].newBooking[1].id \notin DOMAIN req[1].pre.kv)
         => StoreCount = PreCount(1) + 1
    /\ HoldsBooking(1) /\ ~kvEnabled => StoreCount = PreCount(1)

\* A new e-mail was answered 200 and the file holds one record more than the
\* full store did.
C6_Witness ==
  /\ BookDone(1)
  /\ PreCount(1) = StoredBefore
  /\ ~HoldsBooking(1)
  /\ req[1].status = 200
  /\ ~kvEnabled
  /\ StoreCount = StoredBefore + 1

\* The days of the catalog: 24 November to 5 December 2025.
InCatalog(v) == v.t = "string" /\ \E n \in 24..35 : v.s = DayString(n)

\* A date that is no string, that Date cannot parse, or that compares
\* outside the window as a string.
OutsideWindow(v) ==
  \/ v.t # "string"
  \/ ~DateParses(v.s)
  \/ StrLess(v.s, MIN_BOOKING_DATE)
  \/ StrLess(MAX_BOOKING_DATE, v.s)

StoreUnchangedSince(p) == file = req[p].pre.file /\ kvData = req[p].pre.kv

\* What loadBookings returns from the store as it is.
LoadedNow == IF kvEnabled THEN KvLoaded(AscendingKeys(DOMAIN kvData), kvData) ELSE file.recs

SameSlot(b1, b2) == b1.date = b2.date /\ b1.timeSlot = b2.timeSlot

\* The request before was a POST /book, answered 200, for the slot this one
\* asks for, from another e-mail.
FirstTookSlot(p) ==
  /\ prev.kind = "book"
  /\ prev.status = 200
  /\ SameSlot(prev.body, req[p].body)
  /\ normalizeEmail(prev.body.email) # normalizeEmail(req[p].body.email)

\* C1: no two stored records with different normalized e-mails have the same
\* date and timeSlot, whatever the interleaving of the POST /book requests.
C1_SlotUniqueness ==
  \A a, b \in StoreRecords : NormalizedEmailOf(a) # NormalizedEmailOf(b) => ~SameSlot(a, b)

\* C2: the store holds at most one record per normalized e-mail, also when
\* kv.del of the replaced record fails before kv.set of the new one.
C2_EmailUniqueness ==
  IF kvEnabled
    THEN \A j, k \in DOMAIN kvData :
           j # k => NormalizedEmailOf(kvData[j]) # NormalizedEmailOf(kvData[k])
    ELSE \A i, j \in 1..Len(file.recs) :
           i # j => NormalizedEmailOf(file.recs[i]) # NormalizedEmailOf(file.recs[j])

\* C3: of two valid POST /book requests from different e-mails for the same
\* slot, handled one after the other, the first is answered 200 and stored
\* (a valid request for a slot no other e-mail holds is), and the second is
\* answered 400 with the slot-already-booked error and leaves the store as it
\* was.
C3_SecondRejected ==
  BookDone(1) /\ ValidationError(req[1].body) = NoError =>
    /\ FirstTookSlot(1) => prev.newBooking[1] \in PreRecords(1)
    /\ TakenByOther(1) =>
         /\ req[1].status = 400
         /\ req[1].error = ERR_SLOT_BOOKED
         /\ StoreUnchangedSince(1)
    /\ ~TakenByOther(1) =>
         /\ req[1].status = 200
         /\ req[1].newBooking[1] \in StoreRecords

\* The second of two such requests has been rejected.
C3_Witness ==
  /\ BookDone(1)
  /\ FirstTookSlot(1)
  /\ req[1].status = 400
  /\ req[1].error = ERR_SLOT_BOOKED
  /\ prev.newBooking[1] \in StoreRecords

\* C4: after an e-mail that holds a booking has posted a valid request for
\* another, free slot, GET /available-slots no longer lists the old timeSlot
\* for the old date, lists the new timeSlot for the new date, and the store
\* holds as many records as before.
C4_Rebooking ==
  BookDone(1) /\ req[1].status = 200 =>
    \A old \in PreRecords(1) :
      /\ NormalizedEmailOf(old) = normalizeEmail(req[1].body.email)
      /\ ~(old.date = req[1].body.date.s /\ old.timeSlot = req[1].body.timeSlot.s)
      => /\ old.timeSlot \notin Range(BookedSlots(LoadedNow, old.date, utcOffset))
         /\ req[1].body.timeSlot.s
              \in Range(BookedSlots(LoadedNow, req[1].body.date.s, utcOffset))
         /\ StoreCount = PreCount(1)

\* C8: GET /available-slots with a missing, non-string or invalid date
\* answers 200 with date = minDate and the slots of minDate.
C8_FallbackToMinDate ==
  SlotsDone(1) /\ ~InCatalog(req[1].query) =>
    /\ req[1].status = 200
    /\ req[1].slots[1].date = MIN_BOOKING_DATE
    /\ req[1].slots[1].bookedSlots = BookedSlots(req[1].bookings, MIN_BOOKING_DATE, utcOffset)
    /\ req[1].slots[1].availableSlots
         = AvailableSlots(BookedSlots(req[1].bookings, MIN_BOOKING_DATE, utcOffset))

\* The request a notification was dispatched for is still the one handler
\* p holds.
DispatchedFor(i, p) == BookDone(p) /\ req[p].n = outbox[i].n

\* C10: a failure of the ICS attachment generation or of the Resend send call
\* leaves the response of the request at 200 and the stored records as they
\* are.
C10_NotificationFailureIsolated ==
  [][ /\ \A p \in Handlers :
           req[p].ics # "failed" /\ req'[p].ics = "failed" =>
             /\ req'[p].status = 200
             /\ req'[p].newBooking[1]
                  \in (IF kvEnabled THEN Range(kvData') ELSE Range(file'.recs))
      /\ \A i \in DOMAIN outbox :
           outbox[i].send = "pending" /\ outbox'[i].send = "failed" =>
             /\ req' = req
             /\ file' = file
             /\ kvData' = kvData
             /\ \A p \in Handlers : DispatchedFor(i, p) => req'[p].status = 200 ]_vars

\* A request whose attachment and send call both failed stands answered 200
\* with its record in the store.
C10_Witness ==
  \E p \in Handlers, i \in DOMAIN outbox :
    /\ DispatchedFor(i, p)
    /\ outbox[i].ics = "failed"
    /\ outbox[i].send = "failed"
    /\ req[p].status = 200
    /\ req[p].newBooking[1] \in StoreRecords

\* C11: POST /book answers every validation failure and every slot conflict
\* with 400 and every failure of a store call (kv.keys, kv.get and kv.del
\* among them) with 500; no request whose store call failed is answered 200.
C11_StatusMapping ==
  \A p \in Handlers :
    BookDone(p) =>
      /\ ValidationError(req[p].body) # NoError => req[p].status = 400
      /\ req[p].error = ERR_SLOT_BOOKED => req[p].status = 400
      /\ StoreCallFailed(p) => req[p].status = 500

\* Handler p has loaded the bookings, passed the slot check and is about to
\* write.
Saving(p) == req[p].kind = "book" /\ req[p].pc \in {"write", "del", "set"}

\* The requests of p and q ask for the same slot from different e-mails.
Rivals(p, q) ==
  /\ p # q
  /\ req[p].kind = "book" /\ req[q].kind = "book"
  /\ SameSlot(req[p].body, req[q].body)
  /\ normalizeEmail(req[p].body.email) # normalizeEmail(req[q].body.email)

\* The bookings p loaded hold no record of the other's e-mail for the slot:
\* the load ended before the other's write.
LoadedBeforeWrite(p, q) ==
  \A i \in 1..Len(req[p].bookings) :
    NormalizedEmailOf(req[p].bookings[i]) # normalizeEmail(req[q].body.email)

\* C12: when the loads of two POST /book requests from different e-mails for
\* one slot both end before either write, both requests have passed the
\* conflict check, and the one that writes second is answered 200 like the
\* first: nothing is checked again between the load and the write.
C12_RaceWindow ==
  [][ \A p, q \in Handlers :
        /\ Rivals(p, q)
        /\ Saving(p)
        /\ BookDone(q) /\ req[q].status < 400 /\ LoadedBeforeWrite(q, p)
        /\ LoadedBeforeWrite(p, q)
        /\ req'[p].pc = "done" /\ faults' = faults
        => req'[p].status = 200 /\ req'[q].status = 200 ]_vars

\* Both requests were answered 200, no store call having failed.
C12_Witness ==
  \E p, q \in Handlers :
    /\ Rivals(p, q)
    /\ BookDone(p) /\ req[p].status = 200 /\ LoadedBeforeWrite(p, q)
    /\ BookDone(q) /\ req[q].status = 200 /\ LoadedBeforeWrite(q, p)
    /\ faults = {}

\* Handler q has saved its record and p, about to save, loaded the bookings
\* before q saved.
SavedSinceLoad(q, p) ==
  /\ p # q
  /\ BookDone(q) /\ req[q].status = 200
  /\ req[p].kind = "book" /\ req[p].pc = "write"
  /\ \A i \in 1..Len(req[p].bookings) : req[p].bookings[i] # req[q].newBooking[1]

\* C13: on the file backend, when two POST /book requests both finish
\* loadBookings before either saves, the file after the later save is exactly
\* the collection the later request built from what it loaded, so the record
\* of the earlier writer, acknowledged with 200, is not in it (unless the
\* later request wrote a record equal to it).
C13_LastWriteWins ==
  [][ \A p \in Handlers :
        ~kvEnabled /\ req[p].pc = "write" /\ req'[p].pc = "done" /\ req'[p].status = 200 =>
          /\ file'.recs = req[p].others \o req[p].newBooking
          /\ \A q \in Handlers :
               SavedSinceLoad(q, p) /\ req[q].newBooking # req[p].newBooking =>
                 /\ req'[q].status = 200
                 /\ req[q].newBooking[1] \notin Range(file'.recs) ]_vars

\* Two requests of different e-mails were both answered 200 and the file
\* holds the record of one of them only.
C13_Witness ==
  \E p, q \in Handlers :
    /\ ~kvEnabled
    /\ Rivals(p, q)
    /\ BookDone(p) /\ req[p].status = 200
    /\ BookDone(q) /\ req[q].status = 200
    /\ file.recs = req[p].newBooking
    /\ req[q].newBooking[1] \notin Range(file.recs)

\* The file the request found is empty, is no JSON, or is JSON but no array.
FoundNoArray(p) == req[p].pre.file.kind \in {"empty", "invalid", "object", "null"}

\* C14: on the file backend loadBookings never fails the request because of
\* what the file holds: for an empty file, for text that is no JSON and for
\* JSON that is no array it returns no bookings, and the handler answers as
\* for an empty store, not with 500.
C14_CorruptFileTolerated ==
  ~kvEnabled /\ req[1].pc = "done" /\ FoundNoArray(1) =>
    /\ req[1].status # 500
    /\ req[1].bookings = << >>
    /\ SlotsDone(1) => req[1].status = 200 /\ req[1].slots[1].bookedSlots = << >>
    /\ BookDone(1) => req[1].status = 200

\* A record without date but with a timestamp.
NeedsBackfill(r) == r.date = << >> /\ r.timestamp # << >>

\* C15: whenever loadBookings reads a record that has no date but a
\* timestamp, on the file backend as on KV, the record it returns carries the
\* date derived from the timestamp and the normalized collection is written
\* back, so that the store then holds no record needing the backfill and a
\* second loadBookings writes nothing.
C15_SelfHealing ==
  req[1].pc = "done" /\ req[1].status # 500 /\ (\E r \in PreRecords(1) : NeedsBackfill(r)) =>
    /\ \A r \in PreRecords(1) :
         NeedsBackfill(r) =>
           [r EXCEPT !.date = toDateOnlyString(r.timestamp[1], utcOffset)]
             \in Range(req[1].bookings)
    /\ ~NeedsSave(req[1].bookings)
    /\ \A r \in StoreRecords : ~NeedsBackfill(r)

CalendarDone(p) == req[p].kind = "calendar" /\ req[p].pc = "done"

HasDateAndSlot(r) == r.date # << >> /\ r.timeSlot # << >>

\* C16: GET /calendar.ics answers 404 when the store holds no bookings, 500
\* only when the generation of the calendar (createEvents) fails, and
\* otherwise 200 with one event per booking; records lacking a date or a
\* timeSlot are skipped without an error, 404 only if all are skipped. The
\* store is one loadBookings reads an array from.
C16_CalendarExport ==
  CalendarDone(1) /\ (kvEnabled \/ ~FoundNoArray(1)) =>
    LET kept == { i \in 1..Len(req[1].bookings) : HasDateAndSlot(req[1].bookings[i]) }
    IN /\ PreRecords(1) = {} => req[1].status = 404
       /\ req[1].status = 500 => req[1].createEvents = "error"
       /\ PreRecords(1) # {} /\ req[1].createEvents # "error" =>
            IF kept = {} THEN req[1].status = 404
            ELSE req[1].status = 200 /\ Len(req[1].events) = Cardinality(kept)

\* Handlers p and q hold two accepted POST /book requests.
BothAccepted(p, q) ==
  /\ p # q
  /\ BookDone(p) /\ req[p].status = 200
  /\ BookDone(q) /\ req[q].status = 200

\* C17: the records created by two distinct accepted POST /book requests
\* have different ids, also when both read the clock in the same
\* millisecond, and on the KV backend neither record of two requests of
\* different e-mails is overwritten by the other.
C17_UniqueIds ==
  \A p, q \in Handlers :
    BothAccepted(p, q) =>
      /\ req[p].newBooking[1].id # req[q].newBooking[1].id
      /\ kvEnabled /\ Rivals(p, q) /\ faults = {} =>
           req[p].newBooking[1] \in StoreRecords /\ req[q].newBooking[1] \in StoreRecords

\* The status the handler answers a POST /book with, whatever the backend:
\* the validation, then the slot check on the loaded bookings.
BookStatusOn(body, bookings) ==
  IF ValidationError(body) # NoError THEN 400
  ELSE IF SlotBooked(BookingsWithoutEmail(bookings, TrimmedEmail(body)),
                     body.date.s, body.timeSlot.s, utcOffset) THEN 400
  ELSE 200

\* The records the file backend holds after request p, had it loaded the
\* bookings request p loaded and read the clock as request p did:
\* finalBookings for an accepted request, the records found otherwise.
FileBackendRecords(p) ==
  IF BookStatusOn(req[p].body, req[p].bookings) = 200
    THEN Range(FinalBookings(BookingsWithoutEmail(req[p].bookings, TrimmedEmail(req[p].body)),
                             req[p].newBooking))
    ELSE PreRecords(p)

\* C18: handled one at a time from an empty store without storage failures,
\* every POST /book leaves in the store, on either backend, the records the
\* file backend holds after it, and is answered with the same status and
\* replacedExistingBooking.
C18_BackendEquivalence ==
  BookDone(1) =>
    /\ StoreRecords = FileBackendRecords(1)
    /\ req[1].status = BookStatusOn(req[1].body, req[1].bookings)
    /\ req[1].status = 200 => (req[1].replaced # << >>) = HoldsBooking(1)

\* The timeSlots of the records the request found in the store for date,
\* the date of a record without one being that of its timestamp.
StoredSlots(p, date) ==
  { r.timeSlot : r \in { x \in PreRecords(p) : BookingDate(x, utcOffset) = date } }

\* C19: GET /available-slots answers, for the date asked for, availableSlots
\* equal to ALL_TIME_SLOTS in catalog order without the timeSlots of the
\* stored records of that date; availableSlots and bookedSlots are disjoint
\* and every catalog slot is in exactly one of them.
C19_AvailableSlots ==
  SlotsDone(1) /\ req[1].status = 200 =>
    LET response == req[1].slots[1]
        available == Range(response.availableSlots)
        booked == Range(response.bookedSlots)
    IN /\ InCatalog(req[1].query) => response.date = req[1].query.s
       /\ response.availableSlots
            = SelectSeq(ALL_TIME_SLOTS, LAMBDA slot : slot \notin StoredSlots(1, response.date))
       /\ available \cap booked = {}
       /\ \A slot \in Range(ALL_TIME_SLOTS) : (slot \in available) # (slot \in booked)

\* A response that lacks a slot of the catalog, from a store that also holds
\* a record of another date.
C19_Witness ==
  /\ SlotsDone(1) /\ req[1].status = 200
  /\ Len(req[1].slots[1].availableSlots) < Len(ALL_TIME_SLOTS)
  /\ Range(req[1].slots[1].bookedSlots) \cap Range(ALL_TIME_SLOTS) # {}
  /\ \E r \in PreRecords(1) :
       /\ BookingDate(r, utcOffset) # req[1].slots[1].date
       /\ r.timeSlot \in Range(req[1].slots[1].availableSlots)

\* C20: every record POST /book writes to the store has a date that is a
\* day of the calendar within [2025-11-24, 2025-12-05], a timeSlot of
\* ALL_TIME_SLOTS, an integer age within [18, 120], an education of
\* ALLOWED_EDUCATION_LEVELS and nativePolishSpeaker = true.
C20_StoredRecordValid ==
  \A r \in StoreRecords :
    /\ InCatalog(JStr(r.date))
    /\ r.timeSlot \in Range(ALL_TIME_SLOTS)
    /\ r.age \in 18..120
    /\ r.education \in ALLOWED_EDUCATION_LEVELS
    /\ r.nativePolishSpeaker = TRUE

\* C21: the email of every record created by POST /book is the submitted
\* e-mail trimmed and lowercased, normalizeEmail(submitted email).
C21_StoredEmailNormalized ==
  \A p \in Handlers :
    BookDone(p) /\ req[p].status = 200 =>
      /\ req[p].newBooking[1].email = normalizeEmail(req[p].body.email)
      /\ \A r \in StoreRecords : r.email = normalizeEmail(req[p].body.email)

\* The store the request found holds, for the request's e-mail, a record of
\* the date and timeSlot the request asks for.
HoldsSameSlot(p) ==
  \E r \in PreRecords(p) :
    /\ NormalizedEmailOf(r) = normalizeEmail(req[p].body.email)
    /\ BookingDate(r, utcOffset) = req[p].body.date.s
    /\ r.timeSlot = req[p].body.timeSlot.s

\* The places of the loaded store whose record has the e-mail of request p.
PlacesOfEmail(p) ==
  { i \in 1..Len(LoadedNow) : NormalizedEmailOf(LoadedNow[i]) = normalizeEmail(req[p].body.email) }

\* C22: a stored record of the submission's own e-mail never causes the
\* conflict rejection: a valid POST /book for the date and timeSlot its
\* e-mail already holds, none of whose store calls fails, is answered 200
\* with replacedExistingBooking = true and leaves exactly one record of
\* that e-mail, for that slot; a conflict rejection is always due to a
\* record of another e-mail.
C22_OwnSlotNoConflict ==
  /\ BookDone(1) /\ req[1].error = ERR_SLOT_BOOKED => TakenByOther(1)
  /\ ( /\ BookDone(1) /\ ValidationError(req[1].body) = NoError /\ ~StoreCallFailed(1)
       /\ HoldsSameSlot(1) /\ ~TakenByOther(1) ) =>
       /\ req[1].status = 200
       /\ req[1].replaced # << >>
       /\ Cardinality(PlacesOfEmail(1)) = 1
       /\ \A i \in PlacesOfEmail(1) :
            /\ LoadedNow[i] = req[1].newBooking[1]
            /\ LoadedNow[i].date = req[1].body.date.s
            /\ LoadedNow[i].timeSlot = req[1].body.timeSlot.s

\* Among the failed calls is the save of the new record by request n.
SaveFailed(n, failed) == << n, "saveBookings" >> \in failed \/ << n, "kv.set" >> \in failed

\* C23: sendBookingNotification is called for a POST /book only in the step
\* that follows the successful write of the request's record, and then the
\* request is answered 200; no request answered 400 or 500 has a
\* notification, and no request has two.
C23_NotifyAfterWrite ==
  [][ /\ \A i \in DOMAIN outbox' :
           i \notin DOMAIN outbox =>
             /\ \E p \in Handlers :
                  /\ req[p].n = outbox'[i].n
                  /\ req[p].pc \in {"write", "set"}
                  /\ req'[p].pc = "done"
                  /\ req'[p].status = 200
                  /\ outbox'[i].booking = req[p].newBooking[1]
             /\ outbox'[i].booking \in (IF kvEnabled THEN Range(kvData') ELSE Range(file'.recs))
             /\ ~SaveFailed(outbox'[i].n, faults')
             /\ \A j \in DOMAIN outbox' : j # i => outbox'[j].n # outbox'[i].n
      /\ \A p \in Handlers :
           req'[p].pc = "done" /\ req'[p].status >= 400 =>
             \A i \in DOMAIN outbox' : outbox'[i].n # req'[p].n ]_vars

\* A request saved and notified, and the next one answered 500 without a
\* notification.
C23_Witness ==
  /\ Len(outbox) = 1
  /\ outbox[1].booking \in StoreRecords
  /\ BookDone(1) /\ req[1].status = 500
  /\ outbox[1].n # req[1].n
  /\ prev.n = outbox[1].n /\ prev.status = 200

\* The execution of processBooking has returned or thrown.
CallDone == call.pc = "done"

\* The execution got as far as writing the row: the sheet was found and
\* the e-mail is a string that is not blank.
RowWritten == call.email # << >>

\* C24: whatever fails of deleting the old event, creating the new one,
\* storing its id and sending the e-mails, processBooking returns
\* success = true and the row it wrote is in the sheet.
C24_SideEffectFailuresIsolated ==
  CallDone /\ RowWritten =>
    /\ call.success /\ ~call.thrown
    /\ call.targetRow \in 1..Len(sheet)
    /\ [sheet[call.targetRow] EXCEPT !.eventId = 0] = RowData(call.data, call.email, call.n)

\* An update during which the deletion of the old event, the creation of
\* the new one and both e-mails failed.
C24_Witness ==
  /\ CallDone /\ call.success
  /\ call.existingRow # 0
  /\ {"delete", "create", "notification", "confirmation", "mail"} \subseteq call.failed
  /\ sheet[call.targetRow].email = call.email

\* C25: whenever POST /book is answered with a 5xx status, the store holds
\* the records it held when the request arrived; on KV, a replacement whose
\* kv.set fails after its kv.del does not leave the e-mail without booking.
C25_UnchangedOnError ==
  BookDone(1) /\ req[1].status >= 500 =>
    /\ StoreRecords = PreRecords(1)
    /\ HoldsBooking(1) =>
         \E r \in StoreRecords : NormalizedEmailOf(r) = normalizeEmail(req[1].body.email)

\* Handler p serves GET /available-slots or GET /calendar.ics and has not
\* answered yet.
Reading(p) == req[p].kind \in {"slots", "calendar"} /\ req[p].pc \notin {"idle", "done"}

\* The ids of the records a store holds.
IdsOf(records) == { r.id : r \in records }

\* C26: under any interleaving with POST /book, no step of a GET
\* /available-slots or GET /calendar.ics request removes a booking from
\* the store or adds one, the write-back of the backfilled snapshot
\* included.
C26_ReadsKeepBookings ==
  [][ \A p \in Handlers :
        Reading(p) /\ req'[p] # req[p] =>
          IdsOf(IF kvEnabled THEN Range(kvData') ELSE Range(file'.recs)) = IdsOf(StoreRecords) ]_vars

\* C27: on the KV backend POST /book never answers 200 for a date and
\* timeSlot that a record of another e-mail holds in the store when the
\* request is handled, also when kv.keys or kv.get fails in loadBookings.
C27_KvNoDoubleBooking ==
  kvEnabled /\ BookDone(1) /\ req[1].status = 200 => ~TakenByOther(1)

\* C28: a POST /book answered 200, none of whose store calls failed, has
\* replacedExistingBooking = true exactly when the store it loaded held a
\* record of its normalized e-mail, and then the only record of that e-mail
\* left in the store is the new one.
C28_ReplacedFlag ==
  BookDone(1) /\ req[1].status = 200 /\ ~StoreCallFailed(1) =>
    /\ (req[1].replaced # << >>) <=> HoldsBooking(1)
    /\ req[1].replaced # << >> =>
         \A r \in StoreRecords :
           NormalizedEmailOf(r) = normalizeEmail(req[1].body.email) => r = req[1].newBooking[1]

\* column E of a row, trimmed and lowercased
RowEmail(row) == ToLowerCase(Trim(row.email))

\* data.email is missing or blank.
BlankEmail(data) == Falsy(data.email) \/ (data.email.t = "string" /\ Trim(data.email.s) = << >>)

\* C29: processBooking called one execution at a time on a sheet that has
\* no two rows of one normalized e-mail leaves no two such rows; a call for
\* an e-mail that has a row overwrites that row and adds none; a call with
\* a missing or blank e-mail has success = false and leaves the sheet and
\* the calendar as they were.
C29_OneRowPerEmail ==
  /\ \A i, j \in 1..Len(sheet) : i # j => RowEmail(sheet[i]) # RowEmail(sheet[j])
  /\ CallDone /\ call.existingRow # 0 =>
       /\ Len(sheet) = Len(call.pre.sheet)
       /\ RowEmail(sheet[call.existingRow]) = RowEmail(call.pre.sheet[call.existingRow])
  /\ CallDone /\ BlankEmail(call.data) =>
       /\ ~call.success
       /\ sheet = call.pre.sheet
       /\ calendar = call.pre.calendar

\* The events of the calendar made for the e-mail of the call.
EventsOfCall ==
  { e \in calendar : ToLowerCase(Trim(e.email)) = call.email }

\* C30: after a processBooking call that updated an existing row, the
\* calendar holds at most one event of that booking, the event column J
\* named before the call is gone, column J names the new event, and every
\* event of the calendar is named by column J of some row.
C30_OneEventPerBooking ==
  CallDone /\ call.success /\ call.existingRow # 0 =>
    /\ Cardinality(EventsOfCall) <= 1
    /\ call.oldEventId # 0 => call.oldEventId \notin IdsOf(calendar)
    /\ sheet[call.targetRow].eventId = call.calendarEventId
    /\ sheet[call.targetRow].eventId # 0 => sheet[call.targetRow].eventId \in IdsOf(calendar)
    /\ \A e \in calendar : \E i \in 1..Len(sheet) : sheet[i].eventId = e.id
====
